---- MODULE Spec2Model ----
(***************************************************************************)
(* Model of axum-auth's bearer extractor, src/src/auth_bearer.rs:          *)
(* AuthBearer::from_request_parts.                                         *)
(*                                                                         *)
(* A header value is a sequence of bytes (integers 0..255), a header view  *)
(* is the sequence of (name, value) entries in arrival order.  The         *)
(* extractor is modelled twice from the same helpers: as the operator      *)
(* from_request_parts (the whole function) and as a process that walks     *)
(* through its three steps between its return points.                      *)
(***************************************************************************)
EXTENDS Integers, Sequences, FiniteSets, TLC

\* ------------------------------------------------------------------ bounds
\* longest tail appended to a scheme prefix when header values are drawn
MaxLen == 2
\* most header entries carried by one request
MaxHeaders == 2
\* most consecutive invocations on one request
MaxCalls == 2

\* --------------------------------------------------------------- constants
AUTHORIZATION == "authorization"
BAD_REQUEST == 400
SP == 32
Bearer == <<66, 101, 97, 114, 101, 114>>

\* ------------------------------------------------------------ input domain
SeqUpTo(S, n) == UNION {[1..k -> S] : k \in 0..n}

\* 'a', ' ', and the two bytes of U+00E9 in UTF-8 (0xC3 0xA9)
TailBytes == {97, 32, 195, 169}

\* "", "Bearer", "Bearer ", "bearer", "Basic", "Beare", "Bearer\t", "\xFFBearer"
Prefixes ==
  { <<>>,
    Bearer,
    Bearer \o <<SP>>,
    <<98, 101, 97, 114, 101, 114>>,
    <<66, 97, 115, 105, 99>>,
    <<66, 101, 97, 114, 101>>,
    Bearer \o <<9>>,
    <<255>> \o Bearer }

AuthValues == {p \o t : p \in Prefixes, t \in SeqUpTo(TailBytes, MaxLen)}

\* "Bearer a", "Basic a", "\xFF": well-formed, malformed, undecodable
SmallValues == { Bearer \o <<SP, 97>>, <<66, 97, 115, 105, 99, SP, 97>>, <<255>> }

Names == {AUTHORIZATION, "host"}

SmallEntries == [name : Names, value : SmallValues]

\* header views: at most one entry takes its value from AuthValues, the
\* other entries (before and after it) from SmallValues
Requests ==
  SeqUpTo(SmallEntries, MaxHeaders)
  \cup { t[1] \o <<[name |-> AUTHORIZATION, value |-> t[2]]>> \o t[3] :
           t \in { u \in SeqUpTo(SmallEntries, MaxHeaders - 1)
                         \X AuthValues
                         \X SeqUpTo(SmallEntries, MaxHeaders - 1) :
                   Len(u[1]) + Len(u[3]) + 1 <= MaxHeaders } }

\* ------------------------------------------------------ values and results
None == [some |-> FALSE]
Some(v) == [some |-> TRUE, v |-> v]

NoResult == [tag |-> "None"]
Ok(contents) == [tag |-> "Ok", token |-> contents]
Err(status, msg) == [tag |-> "Err", status |-> status, msg |-> msg]

\* ----------------------------------------------------------- text notions
\* the request carries an Authorization header, and its first occurrence
HasAuthorization(h) == \E i \in 1..Len(h) : h[i].name = AUTHORIZATION

FirstAuthorization(h) ==
  h[CHOOSE i \in 1..Len(h) :
      h[i].name = AUTHORIZATION /\ \A k \in 1..(i - 1) : h[k].name # AUTHORIZATION].value

NonAscii(v) == \E i \in 1..Len(v) : v[i] >= 128

HasSpace(v) == \E i \in 1..Len(v) : v[i] = 32

StartsWith(v, p) == Len(v) >= Len(p) /\ SubSeq(v, 1, Len(p)) = p

After(v, n) == SubSeq(v, n + 1, Len(v))

\* the bytes of v before its first space (all of v when it has none)
RECURSIVE BeforeFirstSpace(_)
BeforeFirstSpace(v) ==
  IF v = <<>> \/ Head(v) = 32 THEN <<>> ELSE <<Head(v)>> \o BeforeFirstSpace(Tail(v))

\* well-formed UTF-8, one- and two-byte forms (the byte sets above hold no
\* lead byte of a longer form)
RECURSIVE IsUtf8(_)
IsUtf8(v) ==
  IF v = <<>> THEN TRUE
  ELSE IF v[1] < 128 THEN IsUtf8(Tail(v))
  ELSE IF v[1] \in 194..223 /\ Len(v) >= 2 /\ v[2] \in 128..191 THEN IsUtf8(Tail(Tail(v)))
  ELSE FALSE

\* --------------------------------------------------------- library helpers
\* variant: the first entry whatever its name
get_any(headers, name) ==
  IF headers = <<>> THEN None ELSE Some(Head(headers).value)

\* variant: the last value stored under the name
get_last(headers, name) ==
  IF \E i \in 1..Len(headers) : headers[i].name = name
  THEN LET i == CHOOSE j \in 1..Len(headers) :
                  headers[j].name = name /\ \A k \in (j + 1)..Len(headers) : headers[k].name # name
       IN Some(headers[i].value)
  ELSE None

\* HeaderMap::get: the first value stored under the name, if any
RECURSIVE get(_, _)
get(headers, name) ==
  IF headers = <<>> THEN None
  ELSE IF Head(headers).name = name THEN Some(Head(headers).value)
  ELSE get(Tail(headers), name)

\* variant: the lookup takes the header out of the map (HeaderMap::remove)
headers_after_remove(headers) == SelectSeq(headers, LAMBDA e : e.name # AUTHORIZATION)

\* variant: the lookup inserts an empty header when none is there (entry/or_insert)
headers_after_or_insert(headers) ==
  IF \E i \in 1..Len(headers) : headers[i].name = AUTHORIZATION
  THEN headers
  ELSE Append(headers, [name |-> AUTHORIZATION, value |-> <<>>])

\* the header map after the lookup: get borrows it immutably
headers_after_get(headers) == headers

\* HeaderValue::to_str: Ok with the same bytes as text when every byte is
\* visible ASCII (or a tab), Err otherwise
is_visible_ascii(b) == (b >= 32 /\ b < 127) \/ b = 9

\* variant: decode as UTF-8 (str::from_utf8)
to_str_utf8(value) ==
  IF IsUtf8(value) THEN [ok |-> TRUE, str |-> value] ELSE [ok |-> FALSE]

\* variant: no scan of the bytes (from_utf8_unchecked)
to_str_unchecked(value) == [ok |-> TRUE, str |-> value]

to_str(value) ==
  IF \A i \in 1..Len(value) : is_visible_ascii(value[i])
  THEN [ok |-> TRUE, str |-> value]
  ELSE [ok |-> FALSE]

\* variant: split at the last delimiter (rsplit_once)
rsplit_once(s, delim) ==
  IF \E i \in 1..Len(s) : s[i] = delim
  THEN LET i == CHOOSE j \in 1..Len(s) :
                  s[j] = delim /\ \A k \in (j + 1)..Len(s) : s[k] # delim
       IN Some(<<SubSeq(s, 1, i - 1), SubSeq(s, i + 1, Len(s))>>)
  ELSE None

\* str::split_once(' '): the text before and after the first delimiter
split_once(s, delim) ==
  IF \E i \in 1..Len(s) : s[i] = delim
  THEN LET i == CHOOSE j \in 1..Len(s) :
                  s[j] = delim /\ \A k \in 1..(j - 1) : s[k] # delim
       IN Some(<<SubSeq(s, 1, i - 1), SubSeq(s, i + 1, Len(s))>>)
  ELSE None

\* ------------------------------------------------------ the three rejections
\* a message is the sequence of its pieces; 96 is the grave accent, which a
\* TLA+ string literal cannot hold

\* variant: 401 Unauthorized for the scheme failure
scheme_rejection_401 == [tag |-> "Err", status |-> 401, msg |-> <<96, "Authorization", 96, " header must be a bearer token">>]

missing_rejection == Err(BAD_REQUEST, <<96, "Authorization", 96, " header is missing">>)
invalid_rejection == Err(BAD_REQUEST, <<96, "Authorization", 96, " header contains invalid characters">>)
scheme_rejection == Err(BAD_REQUEST, <<96, "Authorization", 96, " header must be a bearer token">>)

\* variant: the scheme compared without regard to case (eq_ignore_ascii_case)
ToLower(v) == [i \in 1..Len(v) |-> IF v[i] \in 65..90 THEN v[i] + 32 ELSE v[i]]

match_split_ignore_case(split) ==
  IF split.some /\ ToLower(split.v[1]) = ToLower(Bearer) THEN Ok(split.v[2]) ELSE scheme_rejection

\* variant: the scheme only has to begin with "Bearer" (starts_with)
match_split_starts_with(split) ==
  IF split.some /\ StartsWith(split.v[1], Bearer) THEN Ok(split.v[2]) ELSE scheme_rejection

\* the match on the split text
match_split(split) ==
  IF split.some /\ split.v[1] = Bearer THEN Ok(split.v[2]) ELSE scheme_rejection

\* the whole function
from_request_parts(headers) ==
  LET found == get(headers, AUTHORIZATION) IN
  IF ~found.some THEN missing_rejection
  ELSE LET text == to_str(found.v) IN
       IF ~text.ok THEN invalid_rejection
       ELSE match_split(split_once(text.str, SP))

\* ---------------------------------------------------------------- the state
VARIABLES
  parts,          \* the request's header view
  pc,             \* position of the call: idle, get, to_str, split, done
  header,         \* Option<&HeaderValue> found by the lookup
  authorisation,  \* the decoded text
  result,         \* the value returned by the call in progress
  exit,           \* the return point the call left through
  calls,          \* invocations made on this request so far
  prev            \* the result of the previous invocation on this request

vars == <<parts, pc, header, authorisation, result, exit, calls, prev>>

Init ==
  /\ parts = <<>>
  /\ pc = "idle"
  /\ header = None
  /\ authorisation = None
  /\ result = NoResult
  /\ exit = "none"
  /\ calls = 0
  /\ prev = NoResult

\* the framework hands a request to the extractor
Receive ==
  /\ pc = "idle"
  /\ \E r \in Requests : parts' = r
  /\ pc' = "get"
  /\ calls' = 1
  /\ UNCHANGED <<header, authorisation, result, exit, prev>>

\* parts.headers.get(AUTHORIZATION).ok_or(..)?
GetHeader ==
  /\ pc = "get"
  /\ LET found == get(parts, AUTHORIZATION) IN
       /\ header' = found
       /\ IF found.some
          THEN /\ pc' = "to_str"
               /\ UNCHANGED <<result, exit>>
          ELSE /\ pc' = "done"
               /\ result' = missing_rejection
               /\ exit' = "ok_or"
  /\ parts' = headers_after_get(parts)
  /\ UNCHANGED <<authorisation, calls, prev>>

\* .to_str().map_err(..)?
ToStr ==
  /\ pc = "to_str"
  /\ LET text == to_str(header.v) IN
       IF text.ok
       THEN /\ authorisation' = Some(text.str)
            /\ pc' = "split"
            /\ UNCHANGED <<result, exit>>
       ELSE /\ pc' = "done"
            /\ result' = invalid_rejection
            /\ exit' = "map_err"
            /\ UNCHANGED authorisation
  /\ UNCHANGED <<parts, header, calls, prev>>

\* split_once(' ') and the match
SplitMatch ==
  /\ pc = "split"
  /\ result' = match_split(split_once(authorisation.v, SP))
  /\ exit' = IF result'.tag = "Ok" THEN "match_ok" ELSE "match_err"
  /\ pc' = "done"
  /\ UNCHANGED <<parts, header, authorisation, calls, prev>>

\* the extractor is invoked again on the same request
CallAgain ==
  /\ pc = "done"
  /\ calls < MaxCalls
  /\ prev' = result
  /\ calls' = calls + 1
  /\ pc' = "get"
  /\ header' = None
  /\ authorisation' = None
  /\ result' = NoResult
  /\ exit' = "none"
  /\ UNCHANGED parts

\* the request is finished and dropped
Return ==
  /\ pc = "done"
  /\ parts' = <<>>
  /\ pc' = "idle"
  /\ header' = None
  /\ authorisation' = None
  /\ result' = NoResult
  /\ exit' = "none"
  /\ calls' = 0
  /\ prev' = NoResult

Next == Receive \/ GetHeader \/ ToStr \/ SplitMatch \/ CallAgain \/ Return

Spec == Init /\ [][Next]_vars

\* ===================================================================== claims
\* the request of the call in progress and the value of its first
\* Authorization header
Selected == FirstAuthorization(parts)

BearerSp == <<66, 101, 97, 114, 101, 114, 32>>

MissingHeader == [tag |-> "Err", status |-> 400, msg |-> <<96, "Authorization", 96, " header is missing">>]
InvalidEncoding == [tag |-> "Err", status |-> 400, msg |-> <<96, "Authorization", 96, " header contains invalid characters">>]
MalformedScheme == [tag |-> "Err", status |-> 400, msg |-> <<96, "Authorization", 96, " header must be a bearer token">>]

\* C1 as stated: when the first Authorization value is "Bearer " followed by
\* any string s (any well-formed UTF-8 text), the call returns Ok(s).
C1_AnyString ==
  (pc = "done" /\ HasAuthorization(parts) /\ StartsWith(Selected, BearerSp)
     /\ IsUtf8(After(Selected, 7)))
  => result = [tag |-> "Ok", token |-> After(Selected, 7)]

\* C1 amended: when the first Authorization value is "Bearer " followed by any
\* string s of ASCII characters (s may be empty, contain or start with
\* spaces), the call returns Ok(s) with s untrimmed and not split again.
C1_AsciiString ==
  (pc = "done" /\ HasAuthorization(parts) /\ StartsWith(Selected, BearerSp)
     /\ ~NonAscii(After(Selected, 7)))
  => result = [tag |-> "Ok", token |-> After(Selected, 7)]

\* "Bearer " followed by "  ": the token starts with a space and holds another
C1_Witness ==
  /\ pc = "done"
  /\ HasAuthorization(parts)
  /\ Selected = BearerSp \o <<32, 32>>
  /\ result = [tag |-> "Ok", token |-> <<32, 32>>]

C3_InvalidEncoding ==
  (pc = "done" /\ HasAuthorization(parts) /\ NonAscii(Selected)) => result = InvalidEncoding

C3_Witness ==
  /\ pc = "done"
  /\ HasAuthorization(parts)
  /\ Selected = BearerSp \o <<97, 195>>
  /\ result = InvalidEncoding

\* C4: a first Authorization value that is valid text and has no space, or
\* whose text before the first space is not exactly "Bearer", is rejected
\* with 400 and the "must be a bearer token" message.
C4_MalformedScheme ==
  (pc = "done" /\ HasAuthorization(parts) /\ ~NonAscii(Selected)
     /\ (~HasSpace(Selected) \/ BeforeFirstSpace(Selected) # SubSeq(BearerSp, 1, 6)))
  => result = MalformedScheme

\* "bearer a": a space, and a scheme that differs from "Bearer" by case only
C4_Witness ==
  /\ pc = "done"
  /\ HasAuthorization(parts)
  /\ Selected = <<98, 101, 97, 114, 101, 114, 32, 97>>
  /\ result = MalformedScheme

\* C5: the steps run in the order lookup, decoding, scheme parsing; a step is
\* reached only when every earlier step succeeded, and a finished call left
\* through the return point of its earliest failing step with that step's
\* rejection.
EarliestExit(h) ==
  IF ~HasAuthorization(h) THEN "ok_or"
  ELSE IF NonAscii(FirstAuthorization(h)) THEN "map_err"
  ELSE IF ~StartsWith(FirstAuthorization(h), BearerSp) THEN "match_err"
  ELSE "match_ok"

C5_ShortCircuit ==
  /\ pc = "to_str" => (HasAuthorization(parts) /\ result.tag = "None")
  /\ pc = "split" => (HasAuthorization(parts) /\ ~NonAscii(Selected) /\ result.tag = "None")
  /\ pc = "done" =>
       /\ exit = EarliestExit(parts)
       /\ exit = "ok_or" => result = MissingHeader
       /\ exit = "map_err" => result = InvalidEncoding
       /\ exit = "match_err" => result = MalformedScheme

\* "\xFFBearer": undecodable and without the "Bearer " prefix
C5_Witness ==
  /\ pc = "done"
  /\ HasAuthorization(parts)
  /\ Selected = <<255, 66, 101, 97, 114, 101, 114>>
  /\ exit = "map_err"
  /\ result = InvalidEncoding

\* C6: with several Authorization headers the result is the one for a request
\* carrying the first occurrence alone.
C6_FirstOccurrence ==
  (pc = "done" /\ HasAuthorization(parts))
  => result = from_request_parts(<<[name |-> AUTHORIZATION, value |-> Selected]>>)

\* a malformed first occurrence followed by a well-formed one
C6_Witness ==
  /\ pc = "done"
  /\ Len(parts) = 2
  /\ parts[1].name = AUTHORIZATION /\ parts[2].name = AUTHORIZATION
  /\ parts[1].value = <<66, 97, 115, 105, 99, 32, 97>>
  /\ parts[2].value = BearerSp \o <<97>>
  /\ result = MalformedScheme

\* C7: a rejection is one of three fixed pairs, all with status 400 and with
\* pairwise distinct messages, and the pair is fixed by the return point alone.
C7_FixedRejections ==
  /\ Cardinality({MissingHeader.msg, InvalidEncoding.msg, MalformedScheme.msg}) = 3
  /\ (pc = "done" /\ result.tag = "Err") =>
       /\ result.status = 400
       /\ result \in {MissingHeader, InvalidEncoding, MalformedScheme}
       /\ result = MissingHeader <=> exit = "ok_or"
       /\ result = InvalidEncoding <=> exit = "map_err"
       /\ result = MalformedScheme <=> exit = "match_err"

C7_Witness ==
  /\ pc = "done"
  /\ HasAuthorization(parts)
  /\ Selected = <<66, 97, 115, 105, 99, 32, 32>>
  /\ exit = "match_err"
  /\ result = MalformedScheme

\* C8: a second invocation on the same request returns what the first returned.
C8_Idempotent ==
  (pc = "done" /\ calls >= 2) => result = prev

C8_Witness ==
  /\ pc = "done"
  /\ calls = 2
  /\ prev.tag = "Ok"
  /\ result.tag = "Ok"
  /\ result.token = <<97, 32>>

\* C9: while a request is with the extractor, over one or several calls and
\* whatever they return, its header view does not change.
C9_RequestUnchanged ==
  [][(pc # "idle" /\ pc' # "idle") => parts' = parts]_vars

C9_Witness ==
  /\ pc = "done"
  /\ calls = 2
  /\ Len(parts) = 2
  /\ ~HasAuthorization(parts)
  /\ result = MissingHeader

\* C10: a token is returned only when the first Authorization header is
\* present, is valid text and is "Bearer " followed by the token; a finished
\* call holds exactly one of the four outcomes.
C10_SoundSuccess ==
  pc = "done" =>
    /\ result.tag \in {"Ok", "Err"}
    /\ result.tag = "Err" => result \in {MissingHeader, InvalidEncoding, MalformedScheme}
    /\ result.tag = "Ok" =>
         /\ HasAuthorization(parts)
         /\ ~NonAscii(Selected)
         /\ StartsWith(Selected, BearerSp)
         /\ result = [tag |-> "Ok", token |-> After(Selected, 7)]

\* "Bearer " alone: the empty token
C10_Witness ==
  /\ pc = "done"
  /\ HasAuthorization(parts)
  /\ Selected = BearerSp
  /\ result = [tag |-> "Ok", token |-> <<>>]

====
